---- MODULE Spec2Model ----
(***************************************************************************)
(* A model of fft_sound_convolution: the RingBuffer of src/src/dtype.rs,   *)
(* its ChunkedBuffer adapter, and the FFTConvolution engine of             *)
(* src/src/lib.rs.                                                         *)
(*                                                                         *)
(* Samples are integers, so that sums and products are exact.  Every value *)
(* that enters the engine is Complex::new(real, 0.0); only the real part   *)
(* is carried.  A spectrum is denoted by the sequence it is the transform  *)
(* of (the discrete transform is injective); the pointwise product of two  *)
(* spectra is the spectrum of the circular convolution of the sequences.   *)
(***************************************************************************)
EXTENDS Integers, Sequences, FiniteSets, TLC

VARIABLES
    rb,        \* the RingBuffer under test: [inner, capacity, length]
    pc,        \* where the RingBuffer's caller is: "idle", inside a loop, "panicked"
    ret,       \* what the last RingBuffer operation returned (an Option or a Vec)
    pre,       \* the RingBuffer as it was when the last operation was called
    op,        \* the last operation called and its arguments
    origin,    \* how the RingBuffer was constructed: "new" or "from_deque"
    pushed,    \* the deque built by the buffer_* calls since the last emission
    args,      \* the arguments FFTConvolution::new was called with
    eng,       \* the FFTConvolution: [x, out, window_size, ir, ir_fft_cache]
    panicked,  \* a panic unwound out of new() or compute()
    hist,      \* the signals passed to compute() since new() or the last clear()
    y,         \* what the last compute() returned
    cleared,   \* "no", or what the last clear() found: "idle" or "pending"
    lin,       \* three engines fed A, B and A+B
    cpc,       \* where a compute() call taken step by step is
    lock,      \* the Mutex around the engine's FftPlanner: [held, poisoned]
    work,      \* the locals of the compute() call in progress
    st         \* a StereoFFTConvolution or TrueStereoFFTConvolution

vars == <<rb, pc, ret, pre, op, origin, pushed,
          args, eng, panicked, hist, y, cleared, lin, cpc, lock, work, st>>
rbVars == <<rb, pc, ret, pre, op, origin, pushed>>
engVars == <<args, eng, panicked, hist, y, cleared>>
callVars == <<cpc, lock, work>>

----------------------------------------------------------------------------
(* Bounds of the model.                                                     *)
MaxCap == 3
MaxIrLen == 3
MaxWindow == 3
MaxCalls == 7
MaxLinCalls == 4
UsizeBits == 16

Items == {1, 2}
Taps == {0, 1}
Signals == {0, 1}

----------------------------------------------------------------------------
(* Option<T> and Vec<T>.                                                    *)
None == <<>>
Some(v) == <<v>>

SeqsUpTo(S, n) == UNION {[1..k -> S] : k \in 0..n}

Front(s) == SubSeq(s, 1, Len(s) - 1)
Last(s) == s[Len(s)]

Min(a, b) == IF a < b THEN a ELSE b

----------------------------------------------------------------------------
(* RingBuffer<T>, src/src/dtype.rs.                                         *)

new(capacity) == [inner |-> <<>>, capacity |-> capacity, length |-> 0]

from_deque(deque) ==
    [inner |-> deque, capacity |-> Len(deque), length |-> Len(deque)]

len(b) == b.length

clear(b) == [b EXCEPT !.inner = <<>>, !.length = 0]

\* drain(lo..hi): VecDeque::drain panics, before it removes anything, when the
\* range is not within the deque.
drain_in_bounds(b, lo, hi) == lo <= hi /\ hi <= Len(b.inner)

\* drain() without `self.length -= drain.len()`.
drain_keeping_length(b, lo, hi) ==
    LET drained == SubSeq(b.inner, lo + 1, hi)
    IN  [rb |-> [b EXCEPT !.inner = SubSeq(b.inner, 1, lo)
                                    \o SubSeq(b.inner, hi + 1, Len(b.inner))],
         items |-> drained]

drain(b, lo, hi) ==
    LET drained == SubSeq(b.inner, lo + 1, hi)
    IN  [rb |-> [b EXCEPT !.inner = SubSeq(b.inner, 1, lo)
                                    \o SubSeq(b.inner, hi + 1, Len(b.inner)),
                          !.length = @ - Len(drained)],
         items |-> drained]

empty(b) ==
    [rb |-> [b EXCEPT !.length = 0, !.inner = <<>>], items |-> b.inner]

pop_front(b) ==
    IF b.capacity = 0 THEN [rb |-> b, item |-> None]
    ELSE IF b.inner = <<>> THEN [rb |-> b, item |-> None]
    ELSE [rb |-> [b EXCEPT !.inner = Tail(@), !.length = @ - 1],
          item |-> Some(Head(b.inner))]

pop_back(b) ==
    IF b.capacity = 0 THEN [rb |-> b, item |-> None]
    ELSE IF b.inner = <<>> THEN [rb |-> b, item |-> None]
    ELSE [rb |-> [b EXCEPT !.inner = Front(@), !.length = @ - 1],
          item |-> Some(Last(b.inner))]

\* to_capacity_*(capacity: Option<usize>): the assignment before the loop.
set_capacity(b, capacity) ==
    IF capacity = None THEN b ELSE [b EXCEPT !.capacity = capacity[1]]

\* The loop of to_capacity_front / to_capacity_back, run to its end.
RECURSIVE to_capacity_front_loop(_)
to_capacity_front_loop(b) ==
    IF b.length > b.capacity THEN to_capacity_front_loop(pop_front(b).rb) ELSE b

RECURSIVE to_capacity_back_loop(_)
to_capacity_back_loop(b) ==
    IF b.length > b.capacity THEN to_capacity_back_loop(pop_back(b).rb) ELSE b

\* push_back without the eviction of a full buffer's front element.
push_back_no_evict(b, item) ==
    IF b.capacity = 0 THEN b
    ELSE [b EXCEPT !.inner = Append(@, item), !.length = @ + 1]

\* push_back evicting from the end it pushes to.
push_back_evict_back(b, item) ==
    IF b.capacity = 0 THEN b
    ELSE LET b2 == IF b.length = b.capacity THEN pop_back(b).rb ELSE b
         IN  [b2 EXCEPT !.inner = Append(@, item), !.length = @ + 1]

push_back(b, item) ==
    IF b.capacity = 0 THEN b
    ELSE LET b1 == to_capacity_front_loop(set_capacity(b, None))
             b2 == IF b1.length = b1.capacity THEN pop_front(b1).rb ELSE b1
         IN  [b2 EXCEPT !.inner = Append(@, item), !.length = @ + 1]

push_front(b, item) ==
    IF b.capacity = 0 THEN b
    ELSE LET b1 == to_capacity_back_loop(set_capacity(b, None))
             b2 == IF b1.length = b1.capacity THEN pop_back(b1).rb ELSE b1
         IN  [b2 EXCEPT !.inner = <<item>> \o @, !.length = @ + 1]

RECURSIVE fill_front(_, _)
fill_front(b, item) ==
    IF b.length < b.capacity THEN fill_front(push_front(b, item), item) ELSE b

RECURSIVE fill_back(_, _)
fill_back(b, item) ==
    IF b.length < b.capacity THEN fill_back(push_back(b, item), item) ELSE b

\* for _ in 0..self.capacity { self.push_back(value.clone()) }
RECURSIVE push_back_times(_, _, _)
push_back_times(b, value, n) ==
    IF n = 0 THEN b ELSE push_back_times(push_back(b, value), value, n - 1)

initialize_again(b, value) == push_back_times(b, value, b.capacity)

initialize(b, value) == initialize_again(b, value)

\* ChunkedBuffer for RingBuffer.
\* buffer_back handing the block back without clearing the buffer.
buffer_back_no_clear(b, item) ==
    LET b1 == push_back(b, item)
    IN  IF b1.length = b1.capacity
        THEN [rb |-> b1, chunk |-> Some(b1.inner)]
        ELSE [rb |-> b1, chunk |-> None]

buffer_back(b, item) ==
    LET b1 == push_back(b, item)
    IN  IF b1.length = b1.capacity
        THEN [rb |-> clear(b1), chunk |-> Some(b1.inner)]
        ELSE [rb |-> b1, chunk |-> None]

buffer_front(b, item) ==
    LET b1 == push_front(b, item)
    IN  IF b1.length = b1.capacity
        THEN [rb |-> clear(b1), chunk |-> Some(b1.inner)]
        ELSE [rb |-> b1, chunk |-> None]

----------------------------------------------------------------------------
(* usize arithmetic, src/src/lib.rs.  A subtraction below zero panics in a  *)
(* build with overflow checks and wraps in one without; next_power_of_two   *)
(* past the largest usize panics, respectively returns 0.  `checks` is the  *)
(* build's choice.  A Vec longer than the address space allows cannot be    *)
(* allocated: collect() panics with "capacity overflow".                    *)

RECURSIVE Pow2(_)
Pow2(k) == IF k = 0 THEN 1 ELSE 2 * Pow2(k - 1)

UsizeMod == Pow2(UsizeBits)

\* isize::MAX bytes of Complex<f64>, 16 bytes each.
MaxVecLen == (Pow2(UsizeBits - 1) - 1) \div 16

Panic == [panic |-> TRUE, val |-> 0]
Ok(v) == [panic |-> FALSE, val |-> v]

usize_sub(a, b, checks) ==
    IF a >= b THEN Ok(a - b)
    ELSE IF checks THEN Panic ELSE Ok(a - b + UsizeMod)

RECURSIVE power_of_two_from(_, _)
power_of_two_from(p, n) == IF p >= n THEN p ELSE power_of_two_from(2 * p, n)

\* The power of two strictly above n.
next_power_of_two_above(n, checks) ==
    LET p == power_of_two_from(1, n + 1)
    IN  IF p < UsizeMod THEN Ok(p) ELSE IF checks THEN Panic ELSE Ok(0)

next_power_of_two(n, checks) ==
    LET p == power_of_two_from(1, n)
    IN  IF p < UsizeMod THEN Ok(p) ELSE IF checks THEN Panic ELSE Ok(0)

\* (ir_size + window_size - 1).next_power_of_two()
padded_window_size_ignoring_ir(ir_size, window_size, checks) ==
    next_power_of_two(window_size, checks)

padded_window_size(ir_size, window_size, checks) ==
    LET n == usize_sub(ir_size + window_size, 1, checks)
    IN  IF n.panic THEN Panic ELSE next_power_of_two(n.val, checks)

\* iter::repeat(Complex::zero()).take(n)
Zeros(n) == [i \in 1..n |-> 0]

\* front.chain(repeat(zero).take(total - Len(front))).collect()
zero_padded(front, total, checks) ==
    LET n == usize_sub(total, Len(front), checks)
    IN  IF n.panic THEN Panic
        ELSE IF Len(front) + n.val > MaxVecLen THEN Panic
        ELSE Ok(front \o Zeros(n.val))

----------------------------------------------------------------------------
(* The transform facility (rustfft), by what it computes.                   *)

RECURSIVE SumTo(_, _)
SumTo(f, n) == IF n = 0 THEN 0 ELSE f[n] + SumTo(f, n - 1)

\* c[n] = sum over k of a[k] * b[(n - k) mod P], indices from 0.
circular_convolution(a, b) ==
    LET P == Len(a)
    IN  [n \in 1..P |->
            SumTo([k \in 1..P |-> a[k] * b[((n - k) % P) + 1]], P)]

\* plan_fft_forward(len).process(&mut buffer)
fft_forward(buffer) == [spectrum_of |-> buffer]

\* *val *= self.ir_fft_cache[i], for every i
multiply_spectra(buffer, cache) ==
    [spectrum_of |-> circular_convolution(buffer.spectrum_of, cache.spectrum_of)]

\* plan_fft_inverse(len).process(&mut buffer): rustfft does not normalize.
fft_inverse(buffer) ==
    LET P == Len(buffer.spectrum_of)
    IN  [i \in 1..P |-> P * buffer.spectrum_of[i]]

----------------------------------------------------------------------------
(* FFTConvolution, src/src/lib.rs.                                          *)

NoEngine == [x |-> new(0), out |-> new(0), window_size |-> 0,
             ir |-> <<>>, ir_fft_cache |-> fft_forward(<<>>)]

Failed == [panic |-> TRUE, eng |-> NoEngine, ret |-> 0]

FFTConvolution_new(ir, window_size, checks) ==
    LET p == padded_window_size(Len(ir), window_size, checks)
        padded == zero_padded(ir, p.val, checks)
    IN  IF p.panic THEN Failed
        ELSE IF padded.panic THEN Failed
        ELSE [panic |-> FALSE, ret |-> 0,
              eng |-> [x |-> new(window_size),
                       out |-> initialize(new(p.val), 0),
                       window_size |-> window_size,
                       ir |-> ir,
                       ir_fft_cache |-> fft_forward(padded.val)]]

window_size_of(e) == e.window_size

internal_buffer_size(e) == len(e.out)

\* clear() that forgets the output accumulator.
FFTConvolution_clear_input_only(e) == [e EXCEPT !.x = clear(@)]

\* clear() that builds the output accumulator anew, window_size long.
FFTConvolution_clear_resizing(e) ==
    [e EXCEPT !.x = clear(@), !.out = initialize(new(e.window_size), 0)]

\* clear() that forgets the input accumulator.
FFTConvolution_clear_output_only(e) ==
    [e EXCEPT !.out = initialize_again(@, 0)]

FFTConvolution_clear(e) ==
    [e EXCEPT !.x = clear(@), !.out = initialize_again(@, 0)]

\* self.out.pop_front().unwrap(); self.out.push_back(0.0)
advance_output_without_push(out) ==
    LET popped == pop_front(out)
    IN  [panic |-> popped.item = None, rb |-> popped.rb,
         item |-> IF popped.item = None THEN 0 ELSE popped.item[1]]

advance_output(out) ==
    LET popped == pop_front(out)
    IN  [panic |-> popped.item = None, rb |-> push_back(popped.rb, 0),
         item |-> IF popped.item = None THEN 0 ELSE popped.item[1]]

Abs(v) == IF v < 0 THEN -v ELSE v

\* buf_val.re / padded_window_size as f64
unnormalized_part(re, P) == re

magnitude_part(re, P) == Abs(re) \div P

real_part(re, P) == re \div P

\* for (out_ref, buf_val) in out.inner_mut().iter_mut().zip(buffer).take(P)
overlap_add(out, buffer, P) ==
    LET n == Min(Min(Len(out.inner), Len(buffer)), P)
    IN  [out EXCEPT !.inner =
            [i \in 1..Len(out.inner) |->
                IF i <= n THEN out.inner[i] + real_part(buffer[i], P)
                ELSE out.inner[i]]]

\* The body of `if let Some(chunk) = ...`: the block through the transforms.
\* self.ir_fft_cache[i] is out of bounds when the buffer is the longer of the
\* two; the two have the same length in every state the engine reaches
\* (SpectraAgree below), and a shorter buffer is not modelled.
convolve_chunk(e, chunk, checks) ==
    LET window_size == Len(chunk)
        p == padded_window_size(Len(e.ir), window_size, checks)
        buffer == zero_padded(chunk, p.val, checks)
    IN  IF p.panic THEN Panic
        ELSE IF buffer.panic THEN Panic
        ELSE IF Len(buffer.val) # Len(e.ir_fft_cache.spectrum_of) THEN Panic
        ELSE Ok([P |-> p.val,
                 buffer |-> fft_inverse(multiply_spectra(fft_forward(buffer.val),
                                                         e.ir_fft_cache))])

compute(e, signal, checks) ==
    LET advanced == advance_output(e.out)
        buffered == buffer_back(e.x, signal)
        block == convolve_chunk(e, buffered.chunk[1], checks)
    IN  IF advanced.panic THEN Failed
        ELSE IF buffered.chunk = None
        THEN [panic |-> FALSE, ret |-> advanced.item,
              eng |-> [e EXCEPT !.out = advanced.rb, !.x = buffered.rb]]
        ELSE IF block.panic THEN Failed
        ELSE [panic |-> FALSE, ret |-> advanced.item,
              eng |-> [e EXCEPT !.x = buffered.rb,
                                !.out = overlap_add(advanced.rb, block.val.buffer,
                                                    block.val.P)]]

----------------------------------------------------------------------------
(* StereoFFTConvolution and TrueStereoFFTConvolution, src/src/lib.rs.       *)

\* Arc::new(Mutex::new(FftPlanner::new())) in FFTConvolution::new: a planner
\* of its own, behind a lock of its own, at every call.  `allocated` counts
\* the planners made so far; the new one is named by the next number.
FFTConvolution_new_planner(allocated) == allocated + 1

StereoFFTConvolution_new(ir_left, ir_right, window_size, checks) ==
    LET left == FFTConvolution_new(ir_left, window_size, checks)
        right == FFTConvolution_new(ir_right, window_size, checks)
        p1 == FFTConvolution_new_planner(0)
        p2 == FFTConvolution_new_planner(p1)
    IN  [panic |-> left.panic \/ right.panic,
         ll |-> left.eng, rr |-> right.eng,
         planner |-> [ll |-> p1, rr |-> p2]]

\* compute() with the left signal passed to both engines.
StereoFFTConvolution_compute_left_twice(s, signal, checks) ==
    LET left == compute(s.ll, signal[1], checks)
        right == compute(s.rr, signal[1], checks)
    IN  [panic |-> left.panic \/ right.panic,
         ll |-> left.eng, rr |-> right.eng,
         ret |-> <<left.ret, right.ret>>]

StereoFFTConvolution_compute(s, signal, checks) ==
    LET left == compute(s.ll, signal[1], checks)
        right == compute(s.rr, signal[2], checks)
    IN  [panic |-> left.panic \/ right.panic,
         ll |-> left.eng, rr |-> right.eng,
         ret |-> <<left.ret, right.ret>>]

StereoFFTConvolution_clear(s) ==
    [ll |-> FFTConvolution_clear(s.ll), rr |-> FFTConvolution_clear(s.rr)]

TrueStereoFFTConvolution_new(ir_ll, ir_rr, ir_lr, ir_rl, window_size, checks) ==
    LET e_ll == FFTConvolution_new(ir_ll, window_size, checks)
        e_rr == FFTConvolution_new(ir_rr, window_size, checks)
        e_lr == FFTConvolution_new(ir_lr, window_size, checks)
        e_rl == FFTConvolution_new(ir_rl, window_size, checks)
        p1 == FFTConvolution_new_planner(0)
        p2 == FFTConvolution_new_planner(p1)
        p3 == FFTConvolution_new_planner(p2)
        p4 == FFTConvolution_new_planner(p3)
    IN  [panic |-> e_ll.panic \/ e_rr.panic \/ e_lr.panic \/ e_rl.panic,
         ll |-> e_ll.eng, rr |-> e_rr.eng, lr |-> e_lr.eng, rl |-> e_rl.eng,
         planner |-> [ll |-> p1, rr |-> p2, lr |-> p3, rl |-> p4]]

\* compute() with the two cross engines taking each other's place.
TrueStereoFFTConvolution_compute_cross_swapped(s, signal, checks) ==
    LET e_ll == compute(s.ll, signal[1], checks)
        e_lr == compute(s.lr, signal[2], checks)
        e_rr == compute(s.rr, signal[2], checks)
        e_rl == compute(s.rl, signal[1], checks)
    IN  [panic |-> e_ll.panic \/ e_rl.panic \/ e_rr.panic \/ e_lr.panic,
         ll |-> e_ll.eng, rr |-> e_rr.eng, lr |-> e_lr.eng, rl |-> e_rl.eng,
         ret |-> <<e_ll.ret + e_lr.ret, e_rr.ret + e_rl.ret>>]

TrueStereoFFTConvolution_compute(s, signal, checks) ==
    LET e_ll == compute(s.ll, signal[1], checks)
        e_rl == compute(s.rl, signal[2], checks)
        e_rr == compute(s.rr, signal[2], checks)
        e_lr == compute(s.lr, signal[1], checks)
    IN  [panic |-> e_ll.panic \/ e_rl.panic \/ e_rr.panic \/ e_lr.panic,
         ll |-> e_ll.eng, rr |-> e_rr.eng, lr |-> e_lr.eng, rl |-> e_rl.eng,
         ret |-> <<e_ll.ret + e_rl.ret, e_rr.ret + e_lr.ret>>]

TrueStereoFFTConvolution_clear(s) ==
    [ll |-> FFTConvolution_clear(s.ll), rr |-> FFTConvolution_clear(s.rr),
     lr |-> FFTConvolution_clear(s.lr), rl |-> FFTConvolution_clear(s.rl)]

\* The planner locks a compute() of engine e takes: its own, when the call
\* completes a block (and FFTConvolution::new took it once before).
LocksTaken(e, planner, signal) ==
    IF buffer_back(e.x, signal).chunk # None THEN {planner} ELSE {}

----------------------------------------------------------------------------
(* The planner lock, std::sync::Mutex, as FFTConvolution uses it.           *)

\* self.fft_planner.lock().unwrap() that takes the lock of a poisoned mutex.
mutex_lock_ignoring_poison(m) ==
    [panic |-> FALSE, m |-> [m EXCEPT !.guards = @ + 1]]

\* self.fft_planner.lock().unwrap(): lock() of a poisoned mutex is an Err,
\* and unwrap() panics on it; the guard inside the Err is dropped with it.
mutex_lock(m) ==
    [panic |-> m.poisoned,
     m |-> IF m.poisoned THEN m ELSE [m EXCEPT !.guards = @ + 1]]

\* A guard that outlives the statement that made it.
drop_guard_kept(m, panicking) == [m EXCEPT !.poisoned = @ \/ panicking]

\* The MutexGuard is a temporary of the `let fft = ...;` statement and is
\* dropped at its end; dropped while the thread panics, it poisons the mutex.
drop_guard(m, panicking) ==
    [guards |-> m.guards - 1, poisoned |-> m.poisoned \/ panicking]

----------------------------------------------------------------------------
(* Values of the variables a specification does not use.                    *)
IdleRb ==
    /\ rb = new(0) /\ pc = "unused" /\ ret = None /\ pre = new(0)
    /\ op = [name |-> "none"] /\ origin = "none" /\ pushed = <<>>

IdleEngine ==
    /\ args = [ir |-> <<>>, window_size |-> 0] /\ eng = NoEngine
    /\ panicked = FALSE /\ hist = <<>> /\ y = 0 /\ cleared = "no"

IdleLin == lin = [n |-> 0]

IdleCall ==
    /\ cpc = "unused" /\ lock = [guards |-> 0, poisoned |-> FALSE]
    /\ work = [acquired |-> 0]

IdleStereo == st = [n |-> 0]

----------------------------------------------------------------------------
(* The RingBuffer driven through its public operations.                     *)

InitRB ==
    /\ \/ \E c \in 0..MaxCap : rb = new(c) /\ origin = "new"
       \/ \E s \in SeqsUpTo(Items, MaxCap) : rb = from_deque(s) /\ origin = "from_deque"
    /\ pc = "idle" /\ ret = None /\ pre = rb
    /\ op = [name |-> "new"] /\ pushed = <<>>
    /\ IdleEngine /\ IdleLin /\ IdleCall /\ IdleStereo

\* An operation that runs to completion: rb becomes b, r is returned.
Returns(name, arg, b, r) ==
    /\ pc = "idle"
    /\ rb' = b /\ ret' = r /\ pre' = rb
    /\ op' = [name |-> name, arg |-> arg]
    /\ UNCHANGED <<pc, origin, pushed>>
    /\ UNCHANGED engVars /\ UNCHANGED <<lin, st>> /\ UNCHANGED callVars

PushBack == \E v \in Items : Returns("push_back", v, push_back(rb, v), None)
PushFront == \E v \in Items : Returns("push_front", v, push_front(rb, v), None)
PopFront == Returns("pop_front", None, pop_front(rb).rb, pop_front(rb).item)
PopBack == Returns("pop_back", None, pop_back(rb).rb, pop_back(rb).item)
Clear == Returns("clear", None, clear(rb), None)
Empty == Returns("empty", None, empty(rb).rb, empty(rb).items)
FillFront == \E v \in Items : Returns("fill_front", v, fill_front(rb, v), None)
FillBack == \E v \in Items : Returns("fill_back", v, fill_back(rb, v), None)
InitializeAgain ==
    \E v \in Items : Returns("initialize_again", v, initialize_again(rb, v), None)

Drain ==
    \E lo \in 0..MaxCap, hi \in 0..MaxCap :
        /\ drain_in_bounds(rb, lo, hi)
        /\ Returns("drain", <<lo, hi>>, drain(rb, lo, hi).rb, drain(rb, lo, hi).items)

DrainPanics ==
    \E lo \in 0..MaxCap, hi \in 0..MaxCap :
        /\ pc = "idle"
        /\ ~drain_in_bounds(rb, lo, hi)
        /\ pc' = "panicked" /\ pre' = rb
        /\ op' = [name |-> "drain", arg |-> <<lo, hi>>]
        /\ UNCHANGED <<rb, ret, origin, pushed>>
        /\ UNCHANGED engVars /\ UNCHANGED <<lin, st>> /\ UNCHANGED callVars

\* to_capacity_front(capacity): the call, one turn of its loop, its return.
ToCapacityFront ==
    \E c \in {None} \cup {Some(n) : n \in 0..MaxCap} :
        /\ pc = "idle"
        /\ rb' = set_capacity(rb, c) /\ pc' = "to_capacity_front"
        /\ pre' = rb /\ op' = [name |-> "to_capacity_front", arg |-> c]
        /\ ret' = None
        /\ UNCHANGED <<origin, pushed>>
        /\ UNCHANGED engVars /\ UNCHANGED <<lin, st>> /\ UNCHANGED callVars

ToCapacityFrontLoop ==
    /\ pc = "to_capacity_front"
    /\ rb.length > rb.capacity
    /\ rb' = pop_front(rb).rb
    /\ UNCHANGED <<pc, ret, pre, op, origin, pushed>>
    /\ UNCHANGED engVars /\ UNCHANGED <<lin, st>> /\ UNCHANGED callVars

ToCapacityFrontReturn ==
    /\ pc = "to_capacity_front"
    /\ ~(rb.length > rb.capacity)
    /\ pc' = "idle"
    /\ UNCHANGED <<rb, ret, pre, op, origin, pushed>>
    /\ UNCHANGED engVars /\ UNCHANGED <<lin, st>> /\ UNCHANGED callVars

ToCapacityBack ==
    \E c \in {None} \cup {Some(n) : n \in 0..MaxCap} :
        /\ pc = "idle"
        /\ rb' = set_capacity(rb, c) /\ pc' = "to_capacity_back"
        /\ pre' = rb /\ op' = [name |-> "to_capacity_back", arg |-> c]
        /\ ret' = None
        /\ UNCHANGED <<origin, pushed>>
        /\ UNCHANGED engVars /\ UNCHANGED <<lin, st>> /\ UNCHANGED callVars

ToCapacityBackLoop ==
    /\ pc = "to_capacity_back"
    /\ rb.length > rb.capacity
    /\ rb' = pop_back(rb).rb
    /\ UNCHANGED <<pc, ret, pre, op, origin, pushed>>
    /\ UNCHANGED engVars /\ UNCHANGED <<lin, st>> /\ UNCHANGED callVars

ToCapacityBackReturn ==
    /\ pc = "to_capacity_back"
    /\ ~(rb.length > rb.capacity)
    /\ pc' = "idle"
    /\ UNCHANGED <<rb, ret, pre, op, origin, pushed>>
    /\ UNCHANGED engVars /\ UNCHANGED <<lin, st>> /\ UNCHANGED callVars

NextRB ==
    \/ PushBack \/ PushFront \/ PopFront \/ PopBack
    \/ Clear \/ Empty \/ Drain \/ DrainPanics
    \/ FillFront \/ FillBack \/ InitializeAgain
    \/ ToCapacityFront \/ ToCapacityFrontLoop \/ ToCapacityFrontReturn
    \/ ToCapacityBack \/ ToCapacityBackLoop \/ ToCapacityBackReturn

SpecRB == InitRB /\ [][NextRB]_vars

----------------------------------------------------------------------------
(* The RingBuffer driven through ChunkedBuffer alone.                       *)

\* A buffer_* call: rb becomes r.rb and r.chunk is returned; `grown` is the
\* deque of the items passed in since the last emission, this one included.
Buffers(name, v, r, grown) ==
    /\ pc = "idle"
    /\ rb' = r.rb /\ ret' = r.chunk /\ pre' = rb
    /\ op' = [name |-> name, arg |-> v]
    /\ pushed' = grown
    /\ UNCHANGED <<pc, origin>>
    /\ UNCHANGED engVars /\ UNCHANGED <<lin, st>> /\ UNCHANGED callVars

SinceEmission == IF ret = None THEN pushed ELSE <<>>

BufferBack ==
    \E v \in Items :
        Buffers("buffer_back", v, buffer_back(rb, v), Append(SinceEmission, v))

BufferFront ==
    \E v \in Items :
        Buffers("buffer_front", v, buffer_front(rb, v), <<v>> \o SinceEmission)

NextChunk == BufferBack \/ BufferFront

SpecChunk == InitRB /\ [][NextChunk]_vars

----------------------------------------------------------------------------
(* The RingBuffer driven through every operation, ChunkedBuffer included.   *)

Initialize == \E v \in Items : Returns("initialize", v, initialize(rb, v), None)

BufferBackCall ==
    \E v \in Items :
        Returns("buffer_back", v, buffer_back(rb, v).rb, buffer_back(rb, v).chunk)

BufferFrontCall ==
    \E v \in Items :
        Returns("buffer_front", v, buffer_front(rb, v).rb, buffer_front(rb, v).chunk)

NextRBAll ==
    \/ PushBack \/ PushFront \/ PopFront \/ PopBack
    \/ Clear \/ Empty \/ Drain \/ DrainPanics
    \/ FillFront \/ FillBack \/ InitializeAgain \/ Initialize
    \/ ToCapacityFront \/ ToCapacityFrontLoop \/ ToCapacityFrontReturn
    \/ ToCapacityBack \/ ToCapacityBackLoop \/ ToCapacityBackReturn
    \/ BufferBackCall \/ BufferFrontCall

SpecRBAll == InitRB /\ [][NextRBAll]_vars

----------------------------------------------------------------------------
(* RingBuffer: the claims.                                                  *)

Quiescent == pc \in {"idle", "panicked"}

\* C7: between operations, whatever sequence of push, pop, drain, clear,
\* empty, fill, initialize and to_capacity calls has run on a buffer made by
\* new(capacity) or from an existing sequence, 0 <= length <= capacity.
C7_CapacityBound ==
    Quiescent => 0 <= rb.length /\ rb.length <= rb.capacity

\* push_back has run on a full buffer and left it full.
C7_Witness ==
    /\ pc = "idle" /\ op.name = "push_back"
    /\ pre.capacity >= 2 /\ pre.length = pre.capacity
    /\ rb.length = rb.capacity

\* C8: push_back(v) on contents s with capacity c leaves s when c = 0, gives
\* s followed by v when length < c, and s without its front element followed
\* by v when length = c; push_front(v) is the mirror image.
C8_PushEvictsOldest ==
    /\ op.name = "push_back" =>
          /\ rb.capacity = pre.capacity
          /\ rb.inner = IF pre.capacity = 0 THEN pre.inner
                        ELSE IF pre.length < pre.capacity
                             THEN Append(pre.inner, op.arg)
                             ELSE Append(Tail(pre.inner), op.arg)
    /\ op.name = "push_front" =>
          /\ rb.capacity = pre.capacity
          /\ rb.inner = IF pre.capacity = 0 THEN pre.inner
                        ELSE IF pre.length < pre.capacity
                             THEN <<op.arg>> \o pre.inner
                             ELSE <<op.arg>> \o Front(pre.inner)

\* push_back has evicted from a full buffer of two distinct elements.
C8_Witness ==
    /\ op.name = "push_back"
    /\ pre.capacity >= 2 /\ pre.length = pre.capacity
    /\ pre.inner[1] # pre.inner[2]
    /\ rb.inner = Append(Tail(pre.inner), op.arg)

\* C9: to_capacity_front(n) and to_capacity_back(n) return for every buffer
\* and every n (a call in progress can always take a step that changes the
\* state, the loop being bounded by the length), and on return capacity = n,
\* length = min(old length, n), the excess removed from the front (the back).
InToCapacity == pc \in {"to_capacity_front", "to_capacity_back"}

ToCapacityStep ==
    \/ ToCapacityFrontLoop \/ ToCapacityFrontReturn
    \/ ToCapacityBackLoop \/ ToCapacityBackReturn

C9_ToCapacityReturns ==
    /\ InToCapacity => ENABLED <<ToCapacityStep>>_vars
    /\ (pc = "idle" /\ op.name = "to_capacity_front" /\ op.arg # None) =>
          /\ rb.capacity = op.arg[1]
          /\ rb.length = Min(pre.length, op.arg[1])
          /\ rb.inner = SubSeq(pre.inner, pre.length - rb.length + 1, pre.length)
    /\ (pc = "idle" /\ op.name = "to_capacity_back" /\ op.arg # None) =>
          /\ rb.capacity = op.arg[1]
          /\ rb.length = Min(pre.length, op.arg[1])
          /\ rb.inner = SubSeq(pre.inner, 1, rb.length)

\* C10 as stated, for c >= 1: for a buffer of capacity c made by new(c) or
\* from an existing sequence, a buffer_* call returns a block iff exactly c
\* items were passed in since the last emission or construction; the block
\* has length c and holds those items in buffer order; the buffer is empty
\* after it.
IsBufferCall == op.name \in {"buffer_back", "buffer_front"}

----------------------------------------------------------------------------
(* One FFTConvolution driven through new, compute and clear.                *)

IrSet == SeqsUpTo(Taps, MaxIrLen)

InitEngine ==
    /\ \E ir \in IrSet, w \in 0..MaxWindow, checks \in BOOLEAN :
          LET made == FFTConvolution_new(ir, w, checks)
          IN  /\ args = [ir |-> ir, window_size |-> w]
              /\ panicked = made.panic
              /\ eng = made.eng
    /\ hist = <<>> /\ y = 0 /\ cleared = "no"
    /\ IdleRb /\ IdleLin /\ IdleCall /\ IdleStereo

EngineCompute ==
    \E signal \in Signals :
        \E done \in {compute(eng, signal, checks) : checks \in BOOLEAN} :
            /\ ~panicked
            /\ Len(hist) < MaxCalls
            /\ panicked' = done.panic
            /\ eng' = IF done.panic THEN eng ELSE done.eng
            /\ y' = done.ret
            /\ hist' = Append(hist, signal)
            /\ UNCHANGED <<args, cleared>>
            /\ UNCHANGED rbVars /\ UNCHANGED <<lin, st>> /\ UNCHANGED callVars

\* A block is part filled and an earlier block's tail is still to be returned.
Pending(e) ==
    /\ e.x.length > 0
    /\ \E i \in 1..Len(e.out.inner) : e.out.inner[i] # 0

EngineClear ==
    /\ ~panicked
    /\ eng' = FFTConvolution_clear(eng)
    /\ hist' = <<>> /\ y' = 0
    /\ cleared' = IF Pending(eng) THEN "pending" ELSE "idle"
    /\ UNCHANGED <<args, panicked>>
    /\ UNCHANGED rbVars /\ UNCHANGED <<lin, st>> /\ UNCHANGED callVars

NextEngine == EngineCompute \/ EngineClear

SpecEngine == InitEngine /\ [][NextEngine]_vars

----------------------------------------------------------------------------
(* Three engines with one ir and window_size, fed A, B and A + B.           *)

LinSignals == {-1, 1}

InitLin ==
    /\ \E ir \in IrSet, w \in 1..MaxWindow, checks \in BOOLEAN :
          LET made == FFTConvolution_new(ir, w, checks)
          IN  /\ Len(ir) >= 1
              /\ ~made.panic
              /\ lin = [a |-> FFTConvolution_clear(made.eng),
                        b |-> FFTConvolution_clear(made.eng),
                        s |-> FFTConvolution_clear(made.eng),
                        ya |-> 0, yb |-> 0, ys |-> 0, n |-> 0]
    /\ IdleRb /\ IdleEngine /\ IdleCall /\ IdleStereo

LinCompute ==
    \E sa \in LinSignals, sb \in LinSignals, checks \in BOOLEAN :
        LET da == compute(lin.a, sa, checks)
            db == compute(lin.b, sb, checks)
            ds == compute(lin.s, sa + sb, checks)
        IN  /\ lin.n < MaxLinCalls
            /\ ~da.panic /\ ~db.panic /\ ~ds.panic
            /\ lin' = [a |-> da.eng, b |-> db.eng, s |-> ds.eng,
                       ya |-> da.ret, yb |-> db.ret, ys |-> ds.ret,
                       n |-> lin.n + 1]
            /\ UNCHANGED rbVars /\ UNCHANGED engVars /\ UNCHANGED st /\ UNCHANGED callVars

LinClear ==
    /\ lin.n > 0
    /\ lin' = [a |-> FFTConvolution_clear(lin.a),
               b |-> FFTConvolution_clear(lin.b),
               s |-> FFTConvolution_clear(lin.s),
               ya |-> 0, yb |-> 0, ys |-> 0, n |-> 0]
    /\ UNCHANGED rbVars /\ UNCHANGED engVars /\ UNCHANGED st /\ UNCHANGED callVars

NextLin == LinCompute \/ LinClear

SpecLin == InitLin /\ [][NextLin]_vars

\* C19: in every state reached through the RingBuffer's operations the
\* length field is the number of elements held; drain(lo..hi) in bounds
\* returns the elements it removes, in order, and lowers length by their
\* number, and so does empty(); pop_front and pop_back on an empty or
\* zero-capacity buffer return None and change nothing.
C19_LengthInSync ==
    /\ rb.length = Len(rb.inner)
    /\ (pc = "idle" /\ op.name = "drain") =>
          /\ ret = SubSeq(pre.inner, op.arg[1] + 1, op.arg[2])
          /\ Len(ret) = op.arg[2] - op.arg[1]
          /\ rb.inner = SubSeq(pre.inner, 1, op.arg[1])
                        \o SubSeq(pre.inner, op.arg[2] + 1, Len(pre.inner))
          /\ rb.length = pre.length - Len(ret)
    /\ op.name = "empty" =>
          /\ ret = pre.inner /\ rb.inner = <<>>
          /\ rb.length = pre.length - Len(ret)
    /\ (op.name \in {"pop_front", "pop_back"}
        /\ (pre.length = 0 \/ pre.capacity = 0)) =>
          /\ ret = None /\ rb = pre

\* drain(1..3) has taken the last two of three elements.
C19_Witness ==
    /\ pc = "idle" /\ op.name = "drain" /\ op.arg = <<1, 3>>
    /\ pre.length = 3 /\ Len(ret) = 2 /\ rb.length = 1

----------------------------------------------------------------------------
(* A StereoFFTConvolution beside two stand-alone engines, one per channel.  *)

StereoIrs == {<<1>>, <<1, 1>>}

InitStereo ==
    /\ \E il \in StereoIrs, ir \in StereoIrs, w \in 1..MaxWindow, checks \in BOOLEAN :
          LET made == StereoFFTConvolution_new(il, ir, w, checks)
          IN  /\ ~made.panic
              /\ st = [ll |-> made.ll, rr |-> made.rr, planner |-> made.planner,
                       acquired |-> {made.planner.ll, made.planner.rr},
                       ml |-> FFTConvolution_new(il, w, checks).eng,
                       mr |-> FFTConvolution_new(ir, w, checks).eng,
                       y |-> <<0, 0>>, yml |-> 0, ymr |-> 0, n |-> 0]
    /\ IdleRb /\ IdleEngine /\ IdleLin /\ IdleCall

StereoCompute ==
    \E l \in Signals, r \in Signals, checks \in BOOLEAN :
        \E done \in {StereoFFTConvolution_compute(st, <<l, r>>, checks)},
           left \in {compute(st.ml, l, checks)},
           right \in {compute(st.mr, r, checks)} :
            /\ st.n < MaxLinCalls
            /\ ~done.panic
            /\ st' = [st EXCEPT !.ll = done.ll, !.rr = done.rr, !.y = done.ret,
                                !.acquired = @ \cup LocksTaken(st.ll, st.planner.ll, l)
                                               \cup LocksTaken(st.rr, st.planner.rr, r),
                                !.ml = left.eng, !.mr = right.eng,
                                !.yml = left.ret, !.ymr = right.ret,
                                !.n = @ + 1]
            /\ UNCHANGED rbVars /\ UNCHANGED engVars /\ UNCHANGED lin
            /\ UNCHANGED callVars

StereoClear ==
    /\ st.n > 0
    /\ \E done \in {StereoFFTConvolution_clear(st)} :
          st' = [st EXCEPT !.ll = done.ll, !.rr = done.rr,
                           !.ml = FFTConvolution_clear(@),
                           !.mr = FFTConvolution_clear(@),
                           !.y = <<0, 0>>, !.yml = 0, !.ymr = 0, !.n = 0]
    /\ UNCHANGED rbVars /\ UNCHANGED engVars /\ UNCHANGED lin
    /\ UNCHANGED callVars

NextStereo == StereoCompute \/ StereoClear

SpecStereo == InitStereo /\ [][NextStereo]_vars

----------------------------------------------------------------------------
(* A TrueStereoFFTConvolution, with the signals it was given.               *)

InitTrueStereo ==
    /\ \E i1 \in StereoIrs, i2 \in StereoIrs, i3 \in StereoIrs, i4 \in StereoIrs,
          w \in 1..MaxWindow, checks \in BOOLEAN :
          LET made == TrueStereoFFTConvolution_new(i1, i2, i3, i4, w, checks)
          IN  /\ ~made.panic
              /\ st = [ll |-> made.ll, rr |-> made.rr, lr |-> made.lr, rl |-> made.rl,
                       planner |-> made.planner,
                       acquired |-> {made.planner.ll, made.planner.rr,
                                     made.planner.lr, made.planner.rl},
                       hl |-> <<>>, hr |-> <<>>, y |-> <<0, 0>>, n |-> 0]
    /\ IdleRb /\ IdleEngine /\ IdleLin /\ IdleCall

TrueStereoCompute ==
    \E l \in Signals, r \in Signals, checks \in BOOLEAN :
        \E done \in {TrueStereoFFTConvolution_compute(st, <<l, r>>, checks)} :
            /\ st.n < MaxLinCalls
            /\ ~done.panic
            /\ st' = [st EXCEPT !.ll = done.ll, !.rr = done.rr,
                                !.lr = done.lr, !.rl = done.rl, !.y = done.ret,
                                !.acquired = @ \cup LocksTaken(st.ll, st.planner.ll, l)
                                               \cup LocksTaken(st.rl, st.planner.rl, r)
                                               \cup LocksTaken(st.rr, st.planner.rr, r)
                                               \cup LocksTaken(st.lr, st.planner.lr, l),
                                !.hl = Append(@, l), !.hr = Append(@, r),
                                !.n = @ + 1]
            /\ UNCHANGED rbVars /\ UNCHANGED engVars /\ UNCHANGED lin
            /\ UNCHANGED callVars

TrueStereoClear ==
    /\ st.n > 0
    /\ \E done \in {TrueStereoFFTConvolution_clear(st)} :
          st' = [st EXCEPT !.ll = done.ll, !.rr = done.rr,
                           !.lr = done.lr, !.rl = done.rl,
                           !.hl = <<>>, !.hr = <<>>, !.y = <<0, 0>>, !.n = 0]
    /\ UNCHANGED rbVars /\ UNCHANGED engVars /\ UNCHANGED lin
    /\ UNCHANGED callVars

NextTrueStereo == TrueStereoCompute \/ TrueStereoClear

SpecTrueStereo == InitTrueStereo /\ [][NextTrueStereo]_vars

----------------------------------------------------------------------------
(* FFTConvolution::compute statement by statement, with the planner lock.   *)
(* cpc is the statement the call is at; "unwound" is a call that panicked   *)
(* and was caught by the caller, who may call again.                        *)

NotAcquired == [forward |-> 0, inverse |-> 0]

InitLock ==
    /\ \E ir \in IrSet \ {<<>>}, w \in 1..MaxWindow, checks \in BOOLEAN :
          LET made == FFTConvolution_new(ir, w, checks)
          IN  /\ ~made.panic
              /\ work = [eng |-> made.eng, at_call |-> made.eng, signal |-> 0,
                         buffered_signal |-> 0, chunk |-> None, P |-> 0,
                         buffer |-> <<>>, acquired |-> NotAcquired, n |-> 0,
                         ret |-> None, failed_at |-> "none",
                         poisoned_at_call |-> FALSE]
    /\ cpc = "idle"
    /\ lock = [guards |-> 0, poisoned |-> FALSE]
    /\ IdleRb /\ IdleEngine /\ IdleLin /\ IdleStereo

LockFrame == UNCHANGED rbVars /\ UNCHANGED engVars /\ UNCHANGED <<lin, st>>

\* lines 127-133: the output accumulator advances, the sample is buffered,
\* and a completed block is padded.
LkCall ==
    \E signal \in Signals, checks \in BOOLEAN :
        LET advanced == advance_output(work.eng.out)
            buffered == buffer_back(work.eng.x, signal)
            p == padded_window_size(Len(work.eng.ir), Len(buffered.chunk[1]), checks)
            padded == zero_padded(buffered.chunk[1], p.val, checks)
            fails == advanced.panic
                     \/ (buffered.chunk # None /\ (p.panic \/ padded.panic))
        IN  /\ cpc \in {"idle", "unwound"}
            /\ work.n < MaxLinCalls
            /\ work' = [work EXCEPT
                  !.at_call = work.eng,
                  !.eng = IF advanced.panic THEN @
                          ELSE [@ EXCEPT !.out = advanced.rb, !.x = buffered.rb],
                  !.signal = signal,
                  !.buffered_signal = advanced.item,
                  !.chunk = IF advanced.panic THEN None ELSE buffered.chunk,
                  !.P = IF fails \/ buffered.chunk = None THEN 0 ELSE p.val,
                  !.buffer = IF fails \/ buffered.chunk = None THEN <<>> ELSE padded.val,
                  !.acquired = NotAcquired,
                  !.n = @ + 1,
                  !.ret = None,
                  !.failed_at = IF fails THEN "pad" ELSE "none",
                  !.poisoned_at_call = lock.poisoned]
            /\ cpc' = IF fails THEN "unwound"
                      ELSE IF buffered.chunk = None THEN "return"
                      ELSE "lock_forward"
            /\ UNCHANGED lock /\ LockFrame

\* line 135, self.fft_planner.lock().unwrap()
LkLockForward ==
    LET locked == mutex_lock(lock)
    IN  /\ cpc = "lock_forward"
        /\ lock.guards = 0
        /\ lock' = locked.m
        /\ cpc' = IF locked.panic THEN "unwound" ELSE "plan_forward"
        /\ work' = [work EXCEPT
              !.acquired.forward = IF locked.panic THEN @ ELSE @ + 1,
              !.failed_at = IF locked.panic THEN "lock_forward" ELSE @]
        /\ LockFrame

\* line 135, .plan_fft_forward(padded_window_size) and the end of the `let`
\* statement.  The planner is rustfft's; a panic inside it is the one way
\* this lock is ever poisoned.
LkPlanForward ==
    \E panicking \in BOOLEAN :
        /\ cpc = "plan_forward"
        /\ lock' = drop_guard(lock, panicking)
        /\ cpc' = IF panicking THEN "unwound" ELSE "process_forward"
        /\ work' = [work EXCEPT
              !.failed_at = IF panicking THEN "plan_forward" ELSE @]
        /\ LockFrame

\* lines 136-140: fft.process(&mut buffer) and the product with the cache
LkProcessForward ==
    /\ cpc = "process_forward"
    /\ work' = [work EXCEPT
          !.buffer = multiply_spectra(fft_forward(@), work.eng.ir_fft_cache)]
    /\ cpc' = "lock_inverse"
    /\ UNCHANGED lock /\ LockFrame

\* line 142, self.fft_planner.lock().unwrap()
LkLockInverse ==
    LET locked == mutex_lock(lock)
    IN  /\ cpc = "lock_inverse"
        /\ lock.guards = 0
        /\ lock' = locked.m
        /\ cpc' = IF locked.panic THEN "unwound" ELSE "plan_inverse"
        /\ work' = [work EXCEPT
              !.acquired.inverse = IF locked.panic THEN @ ELSE @ + 1,
              !.failed_at = IF locked.panic THEN "lock_inverse" ELSE @]
        /\ LockFrame

\* line 142, .plan_fft_inverse(padded_window_size) and the end of the `let`
LkPlanInverse ==
    \E panicking \in BOOLEAN :
        /\ cpc = "plan_inverse"
        /\ lock' = drop_guard(lock, panicking)
        /\ cpc' = IF panicking THEN "unwound" ELSE "process_inverse"
        /\ work' = [work EXCEPT
              !.failed_at = IF panicking THEN "plan_inverse" ELSE @]
        /\ LockFrame

\* lines 143-147: ifft.process(&mut buffer) and the overlap-add
LkProcessInverse ==
    /\ cpc = "process_inverse"
    /\ work' = [work EXCEPT
          !.buffer = fft_inverse(@),
          !.eng.out = overlap_add(@, fft_inverse(work.buffer), work.P)]
    /\ cpc' = "return"
    /\ UNCHANGED lock /\ LockFrame

\* line 150: buffered_signal is returned
LkReturn ==
    /\ cpc = "return"
    /\ work' = [work EXCEPT !.ret = Some(work.buffered_signal)]
    /\ cpc' = "idle"
    /\ UNCHANGED lock /\ LockFrame

NextLock ==
    \/ LkCall \/ LkLockForward \/ LkPlanForward \/ LkProcessForward
    \/ LkLockInverse \/ LkPlanInverse \/ LkProcessInverse \/ LkReturn

SpecLock == InitLock /\ [][NextLock]_vars

----------------------------------------------------------------------------
(* FFTConvolution: the claims.                                              *)

\* The smallest power of two >= n, and the padded size of the arguments.
SmallestPow2(n) == CHOOSE p \in {Pow2(k) : k \in 0..UsizeBits} :
                      p >= n /\ \A q \in {Pow2(k) : k \in 0..UsizeBits} : q >= n => p <= q

L == Len(args.ir)
W == args.window_size
P == SmallestPow2(L + W - 1)
T == Len(hist)

\* The block's spectrum and the cached spectrum have the same length.
SpectraAgree ==
    ~panicked => Len(eng.ir_fft_cache.spectrum_of) = eng.out.capacity

\* x[i], with x[i] = 0 for i < 1.
X(i) == IF i >= 1 THEN hist[i] ELSE 0

\* sum over m in 0..L-1 of ir[m] * x[t - W - m]
Direct(t) == SumTo([m \in 1..L |-> args.ir[m] * X(t - W - (m - 1))], L)

\* C1: on a freshly constructed engine with L >= 1 and W >= 1 the t-th compute
\* call returns the direct convolution delayed by W samples,
\* sum over m of ir[m] * x[t - W - m]; the first W values returned are 0.
C1_ReferenceEquivalence ==
    (L >= 1 /\ W >= 1 /\ cleared = "no") =>
        /\ ~panicked
        /\ T >= 1 => y = Direct(T)
        /\ (T >= 1 /\ T <= W) => y = 0

\* The tails of two blocks overlap in a returned value, with L > W.
C1_Witness ==
    /\ cleared = "no" /\ ~panicked
    /\ L = 3 /\ W = 2 /\ T = 6
    /\ args.ir = <<1, 1, 1>> /\ y = 3

\* C2: with L >= 1 and W >= 1, after any compute and clear calls the output
\* accumulator holds exactly padded_window_size samples, every compute call
\* finds one to pop, and internal_buffer_size() reports padded_window_size.
C2_OutputLength ==
    (L >= 1 /\ W >= 1) =>
        /\ ~panicked
        /\ Len(eng.out.inner) = P
        /\ eng.out.capacity = P
        /\ internal_buffer_size(eng) = P

\* Blocks have completed, a clear has run, and computes after it.
C2_Witness ==
    /\ L = 2 /\ W = 2 /\ cleared # "no" /\ T = 3 /\ ~panicked
    /\ internal_buffer_size(eng) = 4

\* C3: after clear() the engine is in the state of a freshly constructed
\* engine (input accumulator empty, output accumulator all zeros, capacities
\* unchanged), and from then on returns what the fresh engine returns.
FreshEngines ==
    {made.eng : made \in {m \in {FFTConvolution_new(args.ir, W, c) : c \in BOOLEAN} :
                              ~m.panic}}

C3_ClearRestoresFresh ==
    (cleared # "no" /\ ~panicked) =>
        /\ T = 0 => /\ eng \in FreshEngines
                    /\ eng.x.inner = <<>> /\ eng.x.length = 0
                    /\ eng.x.capacity = W
                    /\ eng.out.inner = Zeros(eng.out.capacity)
                    /\ eng.out.length = eng.out.capacity
        /\ (T >= 1 /\ L >= 1 /\ W >= 1) => y = Direct(T)

\* clear() was called in the middle of a block with a tail pending.
C3_Witness ==
    /\ cleared = "pending" /\ ~panicked /\ L = 3 /\ W = 2 /\ T = 0

\* C4: the output for A plus the output for B is the output for A + B, at
\* every call, on freshly cleared engines with the same ir and window_size.
C4_Linearity == lin.n >= 1 => lin.ya + lin.yb = lin.ys

\* A and B of opposite sign cancel in a value that each alone makes non-zero.
C4_Witness ==
    /\ lin.n >= 2 /\ lin.ya = 1 /\ lin.yb = -1 /\ lin.ys = 0
    /\ Len(lin.a.ir) = 2

\* C5 as stated: with ir = [1.0] the first padded_window_size values returned
\* are zero, and every later one is the input of a fixed number of calls
\* earlier.
IdentityIr == args.ir = <<1>> /\ W >= 1 /\ cleared = "no"

C5_IdentityAsStated ==
    IdentityIr =>
        /\ ~panicked
        /\ (T >= 1 /\ T <= P) => y = 0
        /\ T > P => y = hist[T - W]

\* C5 amended: with ir = [1.0] the first window_size values returned are
\* zero, and every later one is the input of window_size calls earlier.
C5_Identity ==
    IdentityIr =>
        /\ ~panicked
        /\ (T >= 1 /\ T <= W) => y = 0
        /\ T > W => y = hist[T - W]

\* With W = 3 the padded size is 4 and the fourth value returned is the first
\* input.
C5_Witness ==
    /\ IdentityIr /\ W = 3 /\ P = 4 /\ T = 4 /\ hist[1] = 1 /\ y = 1

\* C6: for an all-zero ir of length >= 1 and every window_size, 0 included,
\* the engine is constructed and every compute call returns 0.
ZeroIr == L >= 1 /\ \A i \in 1..L : args.ir[i] = 0

C6_ZeroIr ==
    ZeroIr => /\ ~panicked
              /\ T >= 1 => y = 0

\* C13: an engine made with an empty ir (any window_size) or with
\* window_size = 0 (any ir) never fails, at construction or in any compute.
C13_AnomalousInputs == (L = 0 \/ W = 0) => ~panicked

\* The last k elements of h.
LastOf(h, k) == SubSeq(h, Len(h) - k + 1, Len(h))

\* C16: for L >= 1 and W >= 1 the padded size fixed at construction, which is
\* the capacity of the output accumulator and the length of the cached
\* spectrum, is the smallest power of two >= W + L - 1, and the padded size
\* computed again from the block at every block completion is the same, so
\* the padded block is as long as the cached spectrum and the accumulator.
C16_PaddedSize ==
    (L >= 1 /\ W >= 1) =>
        LET smallest == P
        IN  /\ ~panicked
            /\ eng.out.capacity = smallest /\ len(eng.out) = smallest
            /\ Len(eng.ir_fft_cache.spectrum_of) = smallest
            /\ \A signal \in Signals, checks \in BOOLEAN :
                   LET chunk == buffer_back(eng.x, signal).chunk
                       again == padded_window_size(Len(eng.ir), Len(chunk[1]), checks)
                   IN  chunk # None =>
                           /\ again = Ok(smallest)
                           /\ Len(zero_padded(chunk[1], again.val, checks).val)
                                  = smallest

\* One sample short of the second block, with L + W - 1 = 5 and P = 8.
C16_Witness ==
    /\ L = 3 /\ W = 3 /\ ~panicked /\ T = 5 /\ eng.x.length = 2
    /\ eng.out.capacity = 8

\* C17: ir, the cached spectrum, window_size and the capacities of the input
\* and output accumulators are those fixed at construction, after every
\* compute() and every clear().
C17_Frame ==
    ~panicked =>
        \E fresh \in FreshEngines :
            /\ eng.ir = fresh.ir /\ eng.ir = args.ir
            /\ eng.ir_fft_cache = fresh.ir_fft_cache
            /\ eng.window_size = fresh.window_size /\ eng.window_size = W
            /\ eng.x.capacity = fresh.x.capacity
            /\ eng.out.capacity = fresh.out.capacity

\* After a clear() in mid-block and a block-completing compute() since.
C17_Witness ==
    /\ cleared = "pending" /\ ~panicked /\ L = 2 /\ W = 3 /\ T = 3

\* C20: for W >= 1 the input accumulator holds, between calls, the last
\* T mod W signals, T being the number of compute() calls since construction
\* or the last clear(), and so fewer than W; the call that completes a block
\* is exactly the one that makes T a multiple of W, and its block is the
\* last W signals in the order they came.
C20_BlockCadence ==
    (W >= 1 /\ ~panicked) =>
        /\ eng.x.length = T % W /\ eng.x.length < W
        /\ eng.x.inner = LastOf(hist, T % W)
        /\ \A signal \in Signals :
               LET chunk == buffer_back(eng.x, signal).chunk
               IN  /\ chunk # None <=> (T + 1) % W = 0
                   /\ chunk # None => chunk[1] = LastOf(Append(hist, signal), W)

\* Two signals into the second block after a clear().
C20_Witness ==
    /\ W = 3 /\ T = 5 /\ cleared # "no" /\ ~panicked /\ L >= 1
    /\ eng.x.inner = <<1, 0>>

----------------------------------------------------------------------------
(* The stereo wrappers: the claims.                                         *)

\* C11: in a StereoFFTConvolution the left output of every call is what a
\* stand-alone engine with the left ir returns when given the left signals
\* alone (with clear() at the same calls), whatever the right signals are,
\* and the right output likewise: neither depends on the other channel.
C11_NoCrossChannel ==
    /\ st.y[1] = st.yml /\ st.y[2] = st.ymr
    /\ st.ll = st.ml /\ st.rr = st.mr

\* The two channels, with different irs, return different non-zero values.
C11_Witness ==
    /\ st.n >= 3 /\ st.ll.ir # st.rr.ir
    /\ st.y[1] = 2 /\ st.y[2] = 1

\* sum over m of ir[m] * h[t - w - m], with h[i] = 0 for i < 1
DirectOf(ir, h, t, w) ==
    SumTo([m \in 1..Len(ir) |->
              ir[m] * (IF t - w - (m - 1) >= 1 THEN h[t - w - (m - 1)] ELSE 0)],
          Len(ir))

\* C12: every compute((l, r)) of a TrueStereoFFTConvolution gives l to LL and
\* LR and r to RR and RL, one sample each, and returns
\* (LL(l) + RL(r), RR(r) + LR(l)); the four engines have taken the same number
\* of samples since construction or the last clear and complete their blocks
\* on the same calls.
C12_TrueStereoMatrix ==
    LET w == st.ll.window_size
        k == st.n % w
    IN  /\ st.n >= 1 =>
              /\ st.y[1] = DirectOf(st.ll.ir, st.hl, st.n, w)
                           + DirectOf(st.rl.ir, st.hr, st.n, w)
              /\ st.y[2] = DirectOf(st.rr.ir, st.hr, st.n, w)
                           + DirectOf(st.lr.ir, st.hl, st.n, w)
        /\ st.ll.x.inner = LastOf(st.hl, k) /\ st.lr.x.inner = LastOf(st.hl, k)
        /\ st.rr.x.inner = LastOf(st.hr, k) /\ st.rl.x.inner = LastOf(st.hr, k)
        /\ \A e \in {st.ll, st.rr, st.lr, st.rl} : e.x.length = k

\* The cross terms differ (ir_lr # ir_rl) and both channels carry signal.
C12_Witness ==
    /\ st.n >= 3 /\ st.lr.ir # st.rl.ir /\ st.ll.ir # st.rr.ir
    /\ st.hl # st.hr /\ st.y[1] # st.y[2] /\ st.y[1] >= 2

\* C15: the engines of one stereo wrapper share a single planner behind a
\* single lock: they all hold the same planner, and every lock any of them
\* has taken is that one.
C15_SharedPlanner ==
    /\ \A a \in DOMAIN st.planner, b \in DOMAIN st.planner :
           st.planner[a] = st.planner[b]
    /\ Cardinality(st.acquired) <= 1

----------------------------------------------------------------------------
(* The planner lock: the claims.                                            *)

\* A call that reaches its return statement has done what compute() does in
\* one step.
LockStepAgrees ==
    cpc = "return" =>
        \E checks \in BOOLEAN :
            compute(work.at_call, work.signal, checks)
                = [panic |-> FALSE, ret |-> work.buffered_signal, eng |-> work.eng]

\* C14: only a compute() that completes a block takes the planner lock, once
\* for the forward plan and once for the inverse plan; each guard is released
\* before the next statement, so at most one is outstanding, none is held
\* while the transforms, the product or the overlap-add run, and none when
\* compute() returns.
C14_LockDiscipline ==
    /\ lock.guards <= 1
    /\ lock.guards = 1 => cpc \in {"plan_forward", "plan_inverse"}
    /\ cpc \in {"plan_forward", "plan_inverse"} => lock.guards = 1
    /\ work.acquired.forward <= 1 /\ work.acquired.inverse <= work.acquired.forward
    /\ work.acquired # NotAcquired => work.chunk # None
    /\ cpc \in {"return", "idle"} /\ work.n >= 1 =>
          /\ lock.guards = 0
          /\ work.acquired = IF work.chunk = None THEN NotAcquired
                             ELSE [forward |-> 1, inverse |-> 1]

\* A block-completing call at its return, after both acquisitions.
C14_Witness ==
    /\ cpc = "return" /\ work.chunk # None
    /\ work.acquired = [forward |-> 1, inverse |-> 1] /\ lock.guards = 0

\* C18: with the lock poisoned when compute() is called, a call that
\* completes a block panics at the first lock acquisition: it takes no lock,
\* runs no transform and returns no sample.
C18_PoisonIsHardFailure ==
    work.poisoned_at_call /\ work.chunk # None =>
        /\ cpc \in {"lock_forward", "unwound"}
        /\ cpc = "unwound" => work.failed_at = "lock_forward"
        /\ work.ret = None /\ work.acquired = NotAcquired
        /\ work.buffer = zero_padded(work.chunk[1], work.P, TRUE).val

\* A block-completing call that found the lock poisoned and panicked on it.
C18_Witness ==
    /\ work.poisoned_at_call /\ work.chunk # None
    /\ cpc = "unwound" /\ work.failed_at = "lock_forward"

====
